---- MODULE Spec2Model ----
(***************************************************************************)
(* Model of the BioBuddy chat widget: the useChatBot hook                  *)
(* (src/src/hooks/use-chatbot.tsx) and the handlers of the ChatBot         *)
(* component that call it (src/src/components/ChatBot.tsx).                *)
(*                                                                         *)
(* The program is single-threaded and event-driven.  One action is one     *)
(* event handler run to completion (up to its first await), followed by    *)
(* the re-render and the effects that the re-render triggers.  The         *)
(* continuation after an await is a separate action.                       *)
(*                                                                         *)
(* Texts are sequences of characters so that trim() is computed.  The      *)
(* timestamp field of ChatMessage (new Date()) is not modelled.  The       *)
(* synthesis service's answer does not depend on the text or key sent, so  *)
(* a speak call is modelled by its stage alone, and the speak calls that   *)
(* are under way form a bag.                                               *)
(*                                                                         *)
(* History variables (observe, the mark of a speak call, greetingRequests, *)
(* mutedByUser, notification, the voice field of a reply request) record   *)
(* what has happened and never influence a step.  Which history is         *)
(* recorded is fixed per specification by `observe`.                       *)
(***************************************************************************)
EXTENDS Integers, Sequences, FiniteSets, Bags, TLC

\* ---------------------------------------------------------------- bounds
MaxSends == 2     \* sendMessage calls in one session
MaxSpeaks == 2    \* speakMessage calls that are unfinished at the same time

\* ---------------------------------------------------------------- data
NoKey == ""
ApiKeys == {NoKey, "k1"}                \* values of the API key input

Space == " "
Greeting == <<"Hello", Space, "BioBuddy">>
ErrorMessage == <<"sorry">>
BotReplies == {<<"answer">>}            \* texts chatbotResponse may resolve to
TypedTexts == {<<>>, <<Space>>, <<"hi">>}   \* values of the text input
Transcripts == {<<Space>>, <<"hi">>}    \* transcripts recognition may yield

NoToast == "none"                       \* the handler raised no toast
Toasts == {"Voice Recognition Error", "Voice Playback Error",
           "Voice Input Not Available"}  \* titles of the toasts the hook raises

NoAudio == "null"                       \* audioRef.current === null
LiveAudio == "playing"                  \* audioRef.current is an Audio that plays
DeadAudio == "rejected"                 \* ... an Audio whose play() was rejected

VARIABLES
    mounted,         \* the hook's mount effects have run
    messages,        \* useState<ChatMessage[]>: Seq of [content, sender]
    isLoading,       \* useState(false)
    isListening,     \* useState(false)
    apiKey,          \* useState('')
    audioRef,        \* useRef: NoAudio, LiveAudio (the Audio of the call with
                     \*   held = TRUE) or DeadAudio
    recognitionRef,  \* useRef: TRUE iff a SpeechRecognition instance was created
    recState,        \* platform recognition session: "idle" | "active" | "ending"
    message,         \* ChatBot: useState('') of the text input
    isSpeaking,      \* ChatBot: useState(false) of the voice toggle
    requests,        \* sendMessage calls awaiting their reply: set of
                     \*   [turn, key, voice]; turn is the index of the call's
                     \*   user turn in messages, key the apiKey of the render
                     \*   whose sendMessage was called; voice: history
                     \*   (observe = "capture"), the call came from onresult
    speaks,          \* bag of the speakMessage calls under way:
                     \*   [stage, held, mark]; stage is "fetch" (request in
                     \*   flight) or "playing" (its Audio plays); held: its
                     \*   Audio is audioRef.current; mark: history
    observe,         \* history: what this specification records
    greetingRequests,\* history (observe = "greeting"): synthesis requests
                     \*   issued for the greeting, counted up to 2
    mutedByUser,     \* history (observe = "mute"): the last use of the voice
                     \*   toggle was its muting branch
    notification     \* history (observe = "notify"): the title of the toast
                     \*   raised by the last handler that ran, or NoToast

vars == <<mounted, messages, isLoading, isListening, apiKey, audioRef,
          recognitionRef, recState, message, isSpeaking, requests, speaks,
          observe, greetingRequests, mutedByUser, notification>>

\* ---------------------------------------------------------------- helpers
RECURSIVE TrimStart(_)
TrimStart(s) ==
    IF s # <<>> /\ Head(s) = Space THEN TrimStart(Tail(s)) ELSE s

RECURSIVE TrimEnd(_)
TrimEnd(s) ==
    IF s # <<>> /\ s[Len(s)] = Space THEN TrimEnd(SubSeq(s, 1, Len(s) - 1)) ELSE s

\* String.prototype.trim
Trim(s) == TrimEnd(TrimStart(s))

NewCall == [stage |-> "fetch", held |-> FALSE, mark |-> FALSE]

BagAdd(B, c) == B (+) SetToBag({c})
BagRemove(B, c) == B (-) SetToBag({c})

\* the kinds of speak call whose request is in flight / whose audio is playing
InFlight == {c \in BagToSet(speaks) : c.stage = "fetch"}
Playing == {c \in BagToSet(speaks) : c.stage = "playing"}
Speaking == InFlight # {} \/ Playing # {}

\* history only: when the handler `cause` runs its stopSpeaking(), mark
\* every speak call that is under way at that moment
MarkCancelled(sp, cause) ==
    IF observe = cause
    THEN BagOfAll(LAMBDA c : [c EXCEPT !.mark = TRUE], sp)
    ELSE sp

\* history only: the handler that runs calls toast() with title t, or
\* (t = NoToast) does not call toast()
Notify(t) == notification' = IF observe = "notify" THEN t ELSE NoToast

\* audioRef.current is overwritten or cleared: no call's Audio is held
Unhold(sp) == BagOfAll(LAMBDA c : [c EXCEPT !.held = FALSE], sp)

\* stopSpeaking: pause the audio audioRef holds, and clear audioRef
StopSpeakingSpeaks(sp, aref) ==
    IF aref # NoAudio
    THEN [c \in {d \in BagToSet(sp) : ~d.held} |-> sp[c]]
    ELSE sp

StopSpeakingRef(aref) == NoAudio

\* bound: a speakMessage call that gets past its key check is one more
\* call under way
SpeakFits(sp, aref, key) ==
    key = NoKey \/ BagCardinality(StopSpeakingSpeaks(sp, aref)) < MaxSpeaks

\* speakMessage(text) of a render whose apiKey is `key`, up to its await fetch
SpeakMessageSpeaks(sp, aref, text, key) ==
    IF ~(key # NoKey)
    THEN sp
    ELSE BagAdd(StopSpeakingSpeaks(sp, aref), NewCall)

SpeakMessageRef(aref, key) ==
    IF ~(key # NoKey) THEN aref ELSE StopSpeakingRef(aref)

\* mutant: the greeting is appended only when it can be spoken
GreetingMessagesIfCanSpeak(msgs, key) ==
    IF ~(Len(msgs) > 0) /\ key # NoKey
    THEN <<[content |-> Greeting, sender |-> "bot"]>>
    ELSE msgs

\* the greeting effect, deps [messages.length, apiKey]
GreetingMessages(msgs, key) ==
    IF ~(Len(msgs) > 0)
    THEN <<[content |-> Greeting, sender |-> "bot"]>>
    ELSE msgs

\* mutant: the else-branch does not test messages.length === 1
GreetingSpokenAnyLength(msgs, key, aref) ==
    IF ~(Len(msgs) > 0)
    THEN IF key # NoKey THEN <<Greeting>> ELSE <<>>
    ELSE IF key # NoKey /\ aref = NoAudio
         THEN <<msgs[1].content>>
         ELSE <<>>

\* the texts (none or one) the greeting effect passes to speakMessage
GreetingSpoken(msgs, key, aref) ==
    IF ~(Len(msgs) > 0)
    THEN IF key # NoKey THEN <<Greeting>> ELSE <<>>
    ELSE IF key # NoKey /\ Len(msgs) = 1 /\ aref = NoAudio
         THEN <<msgs[1].content>>
         ELSE <<>>

\* one run of the greeting effect: the speak calls and audioRef after it
EffectOnceSpeaks(sp, aref, msgs, key) ==
    IF GreetingSpoken(msgs, key, aref) # <<>>
    THEN SpeakMessageSpeaks(sp, aref, GreetingSpoken(msgs, key, aref)[1], key)
    ELSE sp

EffectOnceRef(aref, msgs, key) ==
    IF GreetingSpoken(msgs, key, aref) # <<>>
    THEN SpeakMessageRef(aref, key)
    ELSE aref

EffectOnceFits(sp, aref, msgs, key) ==
    GreetingSpoken(msgs, key, aref) = <<>> \/ SpeakFits(sp, aref, key)

\* the effect runs after a render in which one of its deps changed
EffectRuns(oldMsgs, newMsgs, oldKey, newKey) ==
    Len(oldMsgs) # Len(newMsgs) \/ oldKey # newKey

EffectMessages(oldMsgs, newMsgs, oldKey, newKey) ==
    IF EffectRuns(oldMsgs, newMsgs, oldKey, newKey)
    THEN GreetingMessages(newMsgs, newKey)
    ELSE newMsgs

EffectSpeaks(sp, aref, oldMsgs, newMsgs, oldKey, newKey) ==
    IF EffectRuns(oldMsgs, newMsgs, oldKey, newKey)
    THEN EffectOnceSpeaks(sp, aref, newMsgs, newKey)
    ELSE sp

EffectRef(aref, oldMsgs, newMsgs, oldKey, newKey) ==
    IF EffectRuns(oldMsgs, newMsgs, oldKey, newKey)
    THEN EffectOnceRef(aref, newMsgs, newKey)
    ELSE aref

EffectFits(sp, aref, oldMsgs, newMsgs, oldKey, newKey) ==
    ~EffectRuns(oldMsgs, newMsgs, oldKey, newKey)
    \/ EffectOnceFits(sp, aref, newMsgs, newKey)

\* history: greetingRequests after an effect run on these values
EffectCount(n, aref, oldMsgs, newMsgs, oldKey, newKey) ==
    IF observe = "greeting"
       /\ EffectRuns(oldMsgs, newMsgs, oldKey, newKey)
       /\ GreetingSpoken(newMsgs, newKey, aref) # <<>>
       /\ n < 2
    THEN n + 1
    ELSE n

\* the number of sendMessage calls so far
Sent == Cardinality({i \in DOMAIN messages : messages[i].sender = "user"})

\* mutant: the catch branch appends the reply text instead of the apology
SettledTextNoApology(ok, reply) == reply

\* the bot turn sendMessage appends when its reply request settles:
\* the try branch appends the reply, the catch branch the apology
SettledText(ok, reply) == IF ok THEN reply ELSE ErrorMessage

\* mutant: a rejected reply is swallowed, no apology turn is appended
SettledMessagesNoCatch(prev, ok, reply) ==
    IF ok THEN Append(prev, [content |-> reply, sender |-> "bot"]) ELSE prev

\* mutant: the bot turn is appended to the messages of the render in which
\* sendMessage was called (no functional update), which lack the user turn
SettledMessagesStale(prev, ok, reply) ==
    Append(SubSeq(prev, 1, Len(prev) - 1),
           [content |-> SettledText(ok, reply), sender |-> "bot"])

SettledMessages(prev, ok, reply) ==
    Append(prev, [content |-> SettledText(ok, reply), sender |-> "bot"])

\* mutant: setIsLoading(false) sits at the end of the try block, not in
\* finally
SettledLoadingTryOnly(cur, ok) == IF ok THEN FALSE ELSE cur

\* isLoading after sendMessage's finally block
SettledLoading(cur, ok) == FALSE

\* ---------------------------------------------------------------- Init
Observations == {"none", "stop", "send", "listen", "greeting", "mute", "notify",
                 "capture"}

\* the state before the first render, recording the history `o`
InitObserving(o) ==
    /\ mounted = FALSE
    /\ messages = <<>>
    /\ isLoading = FALSE
    /\ isListening = FALSE
    /\ apiKey = NoKey
    /\ audioRef = NoAudio
    /\ recognitionRef = FALSE
    /\ recState = "idle"
    /\ message = <<>>
    /\ isSpeaking = FALSE
    /\ requests = {}
    /\ speaks = EmptyBag
    /\ observe = o
    /\ greetingRequests = 0
    /\ mutedByUser = FALSE
    /\ notification = NoToast

Init == InitObserving("none")

\* ---------------------------------------------------------------- actions
\* first render: the recognition setup effect, then the greeting effect on
\* the empty list, then the greeting effect again after the re-render that
\* its setMessages causes (messages.length changed)
Mount ==
    /\ ~mounted
    /\ Notify(NoToast)
    /\ mounted' = TRUE
    /\ \E supported \in BOOLEAN : recognitionRef' = supported
    /\ messages' = EffectMessages(messages, GreetingMessages(messages, apiKey),
                                  apiKey, apiKey)
    /\ EffectOnceFits(speaks, audioRef, messages, apiKey)
    /\ EffectFits(EffectOnceSpeaks(speaks, audioRef, messages, apiKey),
                  EffectOnceRef(audioRef, messages, apiKey),
                  messages, GreetingMessages(messages, apiKey), apiKey, apiKey)
    /\ speaks' = EffectSpeaks(EffectOnceSpeaks(speaks, audioRef, messages, apiKey),
                              EffectOnceRef(audioRef, messages, apiKey),
                              messages, GreetingMessages(messages, apiKey),
                              apiKey, apiKey)
    /\ audioRef' = EffectRef(EffectOnceRef(audioRef, messages, apiKey),
                             messages, GreetingMessages(messages, apiKey),
                             apiKey, apiKey)
    /\ greetingRequests' =
           EffectCount(EffectCount(greetingRequests, audioRef, <<>>, messages, NoKey, apiKey),
                       EffectOnceRef(audioRef, messages, apiKey),
                       messages, GreetingMessages(messages, apiKey), apiKey, apiKey)
    /\ UNCHANGED <<isLoading, isListening, apiKey, recState, message,
                   isSpeaking, requests, observe, mutedByUser>>

\* the API key input's onChange: setApiKey(e.target.value), then the
\* greeting effect if apiKey changed.  setApiKey belongs to the hook's
\* interface and the Dialog that shows the input is not part of the source,
\* so a change of the key is possible in every state after the first render
SetApiKey(v) ==
    /\ mounted
    /\ Notify(NoToast)
    /\ v # apiKey
    /\ apiKey' = v
    /\ messages' = EffectMessages(messages, messages, apiKey, v)
    /\ EffectFits(speaks, audioRef, messages, messages, apiKey, v)
    /\ speaks' = EffectSpeaks(speaks, audioRef, messages, messages, apiKey, v)
    /\ audioRef' = EffectRef(audioRef, messages, messages, apiKey, v)
    /\ greetingRequests' = EffectCount(greetingRequests, audioRef, messages,
                                       messages, apiKey, v)
    /\ UNCHANGED <<mounted, isLoading, isListening, recognitionRef, recState,
                   message, isSpeaking, requests, observe, mutedByUser>>

\* sendMessage(userMessage) of a render whose apiKey is `key`, up to its
\* first await, then the re-render and the greeting effect
SendMessage(userMessage, key, voice) ==
    /\ Sent < MaxSends
    /\ requests' = requests \cup {[turn |-> Len(messages) + 1, key |-> key,
                                   voice |-> voice]}
    /\ messages' = EffectMessages(messages,
                       Append(messages, [content |-> userMessage, sender |-> "user"]),
                       apiKey, apiKey)
    /\ isLoading' = TRUE
    /\ EffectFits(StopSpeakingSpeaks(MarkCancelled(speaks, "send"), audioRef),
                  StopSpeakingRef(audioRef),
                  messages,
                  Append(messages, [content |-> userMessage, sender |-> "user"]),
                  apiKey, apiKey)
    /\ speaks' = EffectSpeaks(
                    StopSpeakingSpeaks(MarkCancelled(speaks, "send"), audioRef),
                    StopSpeakingRef(audioRef),
                    messages,
                    Append(messages, [content |-> userMessage, sender |-> "user"]),
                    apiKey, apiKey)
    /\ audioRef' = EffectRef(StopSpeakingRef(audioRef), messages,
                       Append(messages, [content |-> userMessage, sender |-> "user"]),
                       apiKey, apiKey)
    /\ greetingRequests' =
           EffectCount(greetingRequests, StopSpeakingRef(audioRef), messages,
                       Append(messages, [content |-> userMessage, sender |-> "user"]),
                       apiKey, apiKey)

\* typing into the text input (disabled while loading or listening)
TypeMessage(t) ==
    /\ mounted
    /\ Notify(NoToast)
    /\ ~(isLoading \/ isListening)
    /\ t # message
    /\ message' = t
    /\ UNCHANGED <<mounted, messages, isLoading, isListening, apiKey, audioRef,
                   recognitionRef, recState, isSpeaking, requests, speaks,
                   observe, greetingRequests, mutedByUser>>

\* handleSend, reached by the Send button (disabled when the trimmed
\* message is empty or while loading) or by Enter in the text input
\* (disabled while loading or listening)
HandleSend ==
    /\ mounted
    /\ ~isLoading
    /\ ~(Trim(message) = <<>> /\ isListening)
    /\ IF Trim(message) # <<>>
       THEN /\ SendMessage(message, apiKey, FALSE)
            /\ message' = <<>>
            /\ Notify(NoToast)
            /\ UNCHANGED <<mounted, isListening, apiKey, recognitionRef,
                           recState, isSpeaking, observe, mutedByUser>>
       ELSE UNCHANGED vars

\* the continuation of the sendMessage call r after its awaits: the reply
\* resolved (ok) or rejected; the speak call uses the apiKey of the render
\* that sendMessage was created in
ReplySettle(r, ok, reply) ==
    /\ r \in requests
    /\ Notify(NoToast)
    /\ requests' = requests \ {r}
    /\ messages' = EffectMessages(messages, SettledMessages(messages, ok, reply),
                                  apiKey, apiKey)
    /\ isLoading' = SettledLoading(isLoading, ok)
    /\ SpeakFits(speaks, audioRef, r.key)
    /\ EffectFits(SpeakMessageSpeaks(speaks, audioRef, SettledText(ok, reply), r.key),
                  SpeakMessageRef(audioRef, r.key),
                  messages, SettledMessages(messages, ok, reply), apiKey, apiKey)
    /\ speaks' = EffectSpeaks(
                    SpeakMessageSpeaks(speaks, audioRef, SettledText(ok, reply), r.key),
                    SpeakMessageRef(audioRef, r.key),
                    messages, SettledMessages(messages, ok, reply),
                    apiKey, apiKey)
    /\ audioRef' = EffectRef(SpeakMessageRef(audioRef, r.key),
                             messages, SettledMessages(messages, ok, reply),
                             apiKey, apiKey)
    /\ greetingRequests' =
           EffectCount(greetingRequests, SpeakMessageRef(audioRef, r.key),
                       messages, SettledMessages(messages, ok, reply),
                       apiKey, apiKey)
    /\ UNCHANGED <<mounted, isListening, apiKey, recognitionRef, recState,
                   message, isSpeaking, observe, mutedByUser>>

\* handleVoiceControl (button disabled without an API key)
HandleVoiceControl ==
    /\ mounted
    /\ Notify(NoToast)
    /\ ~(apiKey = NoKey)
    /\ IF isSpeaking
       THEN /\ speaks' = StopSpeakingSpeaks(MarkCancelled(speaks, "stop"), audioRef)
            /\ audioRef' = StopSpeakingRef(audioRef)
            /\ isSpeaking' = FALSE
            /\ mutedByUser' = (observe = "mute")
       ELSE /\ isSpeaking' = TRUE
            /\ mutedByUser' = FALSE
            /\ UNCHANGED <<speaks, audioRef>>
    /\ UNCHANGED <<mounted, messages, isLoading, isListening, apiKey,
                   recognitionRef, recState, message, requests, observe, greetingRequests>>

\* mic button while not listening: startListening (button disabled while
\* loading or without an API key).  start() on a session that has not ended
\* yet throws, after setIsListening(true)
StartListening ==
    /\ mounted
    /\ ~(isLoading \/ apiKey = NoKey)
    /\ ~isListening
    /\ IF recognitionRef
       THEN /\ speaks' = StopSpeakingSpeaks(MarkCancelled(speaks, "listen"), audioRef)
            /\ audioRef' = StopSpeakingRef(audioRef)
            /\ isListening' = TRUE
            /\ recState' = IF recState = "idle" THEN "active" ELSE recState
            /\ Notify(NoToast)
       ELSE /\ Notify("Voice Input Not Available")
            /\ UNCHANGED <<speaks, audioRef, isListening, recState>>
    /\ UNCHANGED <<mounted, messages, isLoading, apiKey, recognitionRef,
                   message, isSpeaking, requests, observe,
                   greetingRequests, mutedByUser>>

\* mic button while listening: stopListening.  stop() ends the session
\* later, possibly after delivering a result
StopListening ==
    /\ mounted
    /\ Notify(NoToast)
    /\ ~(isLoading \/ apiKey = NoKey)
    /\ isListening
    /\ IF recognitionRef /\ isListening
       THEN isListening' = FALSE
       ELSE UNCHANGED isListening
    /\ UNCHANGED <<mounted, messages, isLoading, apiKey, audioRef,
                   recognitionRef, recState, message, isSpeaking, requests,
                   speaks, observe, greetingRequests, mutedByUser>>

\* recognition.onresult: sendMessage of the first render (apiKey === '')
RecognitionResult(t) ==
    /\ recState = "active"
    /\ Notify(NoToast)
    /\ SendMessage(t, NoKey, observe = "capture")
    /\ recState' = "ending"
    /\ UNCHANGED <<mounted, isListening, apiKey, recognitionRef, message,
                   isSpeaking, observe, mutedByUser>>

\* recognition.onerror
RecognitionError ==
    /\ recState = "active"
    /\ Notify("Voice Recognition Error")
    /\ isListening' = FALSE
    /\ recState' = "ending"
    /\ UNCHANGED <<mounted, messages, isLoading, apiKey, audioRef,
                   recognitionRef, message, isSpeaking, requests, speaks,
                   observe, greetingRequests, mutedByUser>>

\* recognition.onend
RecognitionEnd ==
    /\ recState \in {"active", "ending"}
    /\ Notify(NoToast)
    /\ isListening' = FALSE
    /\ recState' = "idle"
    /\ UNCHANGED <<mounted, messages, isLoading, apiKey, audioRef,
                   recognitionRef, message, isSpeaking, requests, speaks,
                   observe, greetingRequests, mutedByUser>>

\* speakMessage after its awaits: the response is ok, the Audio is stored
\* in audioRef and starts playing
FetchOk(c) ==
    /\ c \in InFlight
    /\ Notify(NoToast)
    /\ speaks' = BagAdd(Unhold(BagRemove(speaks, c)),
                        [c EXCEPT !.stage = "playing", !.held = TRUE])
    /\ audioRef' = LiveAudio
    /\ UNCHANGED <<mounted, messages, isLoading, isListening, apiKey,
                   recognitionRef, recState, message, isSpeaking, requests,
                   observe, greetingRequests, mutedByUser>>

\* speakMessage's catch: fetch rejected or the response is not ok
FetchFail(c) ==
    /\ c \in InFlight
    /\ Notify("Voice Playback Error")
    /\ speaks' = BagRemove(speaks, c)
    /\ UNCHANGED <<mounted, messages, isLoading, isListening, apiKey, audioRef,
                   recognitionRef, recState, message, isSpeaking, requests,
                   observe, greetingRequests, mutedByUser>>

\* speakMessage's catch: audio.play() rejected, after audioRef was set
PlayRejected(c) ==
    /\ c \in InFlight
    /\ Notify("Voice Playback Error")
    /\ speaks' = Unhold(BagRemove(speaks, c))
    /\ audioRef' = DeadAudio
    /\ UNCHANGED <<mounted, messages, isLoading, isListening, apiKey,
                   recognitionRef, recState, message, isSpeaking, requests,
                   observe, greetingRequests, mutedByUser>>

\* audio.onended of the Audio of a speak call: clears audioRef whichever
\* Audio it holds
AudioEnded(c) ==
    /\ c \in Playing
    /\ Notify(NoToast)
    /\ speaks' = Unhold(BagRemove(speaks, c))
    /\ audioRef' = NoAudio
    /\ UNCHANGED <<mounted, messages, isLoading, isListening, apiKey,
                   recognitionRef, recState, message, isSpeaking, requests,
                   observe, greetingRequests, mutedByUser>>

Calls == [stage : {"fetch", "playing"}, held : BOOLEAN, mark : BOOLEAN]

Next ==
    \/ Mount
    \/ \E v \in ApiKeys : SetApiKey(v)
    \/ \E t \in TypedTexts : TypeMessage(t)
    \/ HandleSend
    \/ \E r \in requests, ok \in BOOLEAN, reply \in BotReplies : ReplySettle(r, ok, reply)
    \/ HandleVoiceControl
    \/ StartListening
    \/ StopListening
    \/ \E t \in Transcripts : RecognitionResult(t)
    \/ RecognitionError
    \/ RecognitionEnd
    \/ \E c \in Calls : FetchOk(c)
    \/ \E c \in Calls : FetchFail(c)
    \/ \E c \in Calls : PlayRejected(c)
    \/ \E c \in Calls : AudioEnded(c)

Spec == Init /\ [][Next]_vars

\* the same program, recording one history each
SpecStop == InitObserving("stop") /\ [][Next]_vars
SpecSend == InitObserving("send") /\ [][Next]_vars
SpecListen == InitObserving("listen") /\ [][Next]_vars
SpecGreeting == InitObserving("greeting") /\ [][Next]_vars
SpecMute == InitObserving("mute") /\ [][Next]_vars
SpecNotify == InitObserving("notify") /\ [][Next]_vars
SpecCapture == InitObserving("capture") /\ [][Next]_vars

\* the steps the user takes
UserStep ==
    \/ \E v \in ApiKeys : SetApiKey(v)
    \/ \E t \in TypedTexts : TypeMessage(t)
    \/ HandleSend
    \/ HandleVoiceControl
    \/ StartListening
    \/ StopListening

\* every asynchronous operation settles: a reply request resolves or
\* rejects, a recognition session ends, a synthesis request is answered or
\* fails, an audio that plays reaches its end
Settles ==
    /\ WF_vars(\E r \in requests, ok \in BOOLEAN, reply \in BotReplies :
                  ReplySettle(r, ok, reply))
    /\ WF_vars(RecognitionEnd)
    /\ WF_vars(\E c \in Calls : FetchOk(c) \/ FetchFail(c) \/ PlayRejected(c))
    /\ WF_vars(\E c \in Calls : AudioEnded(c))

SpecLive == Init /\ [][Next]_vars /\ Settles

\* ---------------------------------------------------------------- claims
UserTurns == {i \in DOMAIN messages : messages[i].sender = "user"}
BotTurns == {i \in DOMAIN messages : messages[i].sender = "bot"}
GreetingTurn == [content |-> Greeting, sender |-> "bot"]

\* C1: at most one of listening, loading and speaking (a synthesis request
\* in flight or audio playing) is active in any state.
C1_AtMostOneActivity ==
    /\ ~(isListening /\ isLoading)
    /\ ~(isListening /\ Speaking)
    /\ ~(isLoading /\ Speaking)

\* C2: at most one reply request is outstanding at any time, whichever path
\* (typed Send or capture result) the second sendMessage comes from.
C2_OneOutstandingRequest == Cardinality(requests) <= 1

\* C3: every sendMessage call has, in every state, either its reply request
\* outstanding or exactly one bot turn appended for it after its user turn:
\* the replies appended so far are as many as the user turns whose request
\* has settled, and no reply precedes the user turn it answers.
C3_OneReplyPerSubmission ==
    /\ \A r \in requests : r.turn \in UserTurns
    /\ \A r1, r2 \in requests : r1.turn = r2.turn => r1 = r2
    /\ Cardinality(BotTurns \ {1}) + Cardinality(requests) = Cardinality(UserTurns)
    /\ \A n \in DOMAIN messages :
          Cardinality({i \in BotTurns \ {1} : i <= n})
              <= Cardinality({i \in UserTurns : i <= n})

\* two overlapping submissions have both settled, one of them by rejection
C3_Witness ==
    /\ Len(messages) = 5
    /\ messages[2].sender = "user" /\ messages[3].sender = "user"
    /\ requests = {}
    /\ \E i \in {4, 5} : messages[i].content = ErrorMessage
    /\ \E i \in {4, 5} : messages[i].content \in BotReplies

\* C4: an audio of a speak call that was under way when the voice toggle
\* ran stopSpeaking never plays afterwards.
C4_StopIsFinal ==
    observe = "stop" => \A c \in Playing : ~c.mark

\* C5: an audio of a speak call that was under way when sendMessage was
\* called never plays after that call.
C5_SendCancelsSpeech ==
    observe = "send" => \A c \in Playing : ~c.mark

\* C6: an audio of a speak call that was under way (request in flight or
\* audio playing) when startListening was called never plays afterwards.
C6_ListenCancelsSpeech ==
    observe = "listen" => \A c \in Playing : ~c.mark

\* C7: at most one synthesis request is ever issued for the greeting.
C7_GreetingSpokenOnce ==
    observe = "greeting" => greetingRequests <= 1

\* C8: the first render leaves exactly the greeting in the transcript with
\* nothing listening, loading or speaking, whatever the credential; from
\* then on the first turn is the greeting and no later turn is the greeting.
C8_GreetingOnce ==
    /\ [](mounted => /\ Len(messages) >= 1
                      /\ messages[1] = GreetingTurn
                      /\ \A i \in DOMAIN messages : i > 1 => messages[i] # GreetingTurn)
    /\ [][~mounted => /\ messages' = <<GreetingTurn>>
                      /\ ~isListening' /\ ~isLoading'
                      /\ speaks' = EmptyBag]_vars

\* a credential is set and both submissions were answered after the greeting
C8_Witness ==
    /\ mounted /\ apiKey # NoKey
    /\ Len(messages) = 5
    /\ messages[1] = GreetingTurn

\* C9: while the user has muted the voice, the settling of a reply request
\* issues no synthesis request.
C9_NoReplySpokenWhileMuted ==
    [][(mutedByUser /\ requests' # requests /\ requests' \subseteq requests)
          => CopiesIn(NewCall, speaks') <= CopiesIn(NewCall, speaks)]_vars

\* C10: no user turn whose text is empty after trimming is ever appended,
\* on the typed path or on the capture path.
C10_BlankTextIsNoOp ==
    \A i \in UserTurns : Trim(messages[i].content) # <<>>

\* the synthesis requests that are in flight and were not yet in flight
\* when some handler last ran its stopSpeaking
FreshRequests(sp) == CopiesIn(NewCall, sp)

FailureEvent ==
    \/ StartListening /\ ~recognitionRef
    \/ RecognitionError
    \/ \E c \in Calls : FetchFail(c)
    \/ \E c \in Calls : PlayRejected(c)

\* C12: a capture-unsupported, capture-error or synthesis-failure event
\* raises one notification, leaves the transcript unchanged, leaves the
\* session neither listening nor speaking, and issues no new request.
C12_FailuresNotifyAndIdle ==
    [][(observe = "notify" /\ FailureEvent) =>
          /\ notification' \in Toasts
          /\ messages' = messages
          /\ ~isListening'
          /\ ~Speaking'
          /\ FreshRequests(speaks') <= FreshRequests(speaks)
          /\ requests' = requests]_vars

\* C13: every step leaves the transcript unchanged or appends exactly one
\* turn at its end; no turn already in it is removed, replaced or moved, by
\* the greeting effect or by reply completions that overlap.
C13_TranscriptAppendOnly ==
    [][\/ messages' = messages
       \/ /\ Len(messages') = Len(messages) + 1
          /\ SubSeq(messages', 1, Len(messages)) = messages]_vars

\* two submissions overlapped and both were answered, with a credential set
\* and the audio of a reply stored in audioRef
C13_Witness ==
    /\ Len(messages) = 5
    /\ messages[2].sender = "user" /\ messages[3].sender = "user"
    /\ messages[4].sender = "bot" /\ messages[5].sender = "bot"
    /\ apiKey # NoKey
    /\ audioRef = LiveAudio

\* the number of audios that are playing
PlayingCount ==
    BagCardinality([c \in Playing |-> speaks[c]])

\* C14: at most one speak call is in effect at a time (its request in
\* flight or its audio playing), so two audios never play at once.
C14_OneSpeakInEffect ==
    /\ BagCardinality(speaks) <= 1
    /\ PlayingCount <= 1

\* C15: in a step taken while no credential is set, no synthesis request
\* is issued and capture is not started (the session does not start to
\* listen and no recognition session begins).
C15_NoCredentialNoVoice ==
    [][(apiKey = NoKey /\ apiKey' = NoKey) =>
          /\ FreshRequests(speaks') <= FreshRequests(speaks)
          /\ (isListening' => isListening)
          /\ (recState' = "active" => recState = "active")]_vars

\* C16: a step that changes the credential while the transcript holds more
\* than one turn changes nothing else: it issues no synthesis request,
\* appends no turn, and leaves listening, loading, the outstanding reply
\* requests and the playback handle as they were.
C16_LateCredentialOnlyStored ==
    [][(apiKey' # apiKey /\ Len(messages) > 1) =>
          /\ speaks' = speaks
          /\ messages' = messages
          /\ isListening' = isListening
          /\ isLoading' = isLoading
          /\ requests' = requests
          /\ audioRef' = audioRef]_vars

\* the credential was cleared after a submission made with it, while that
\* submission's reply is awaited
C16_Witness ==
    /\ Len(messages) > 1
    /\ apiKey = NoKey
    /\ \E r \in requests : r.key # NoKey

\* C17: when the reply request of a submission that came from capture
\* settles while a credential is set, a synthesis request for that reply is
\* issued (with the credential then in force).
C17_CapturedReplySpoken ==
    [][\A r \in requests :
          (r.voice /\ r \notin requests' /\ apiKey # NoKey) =>
              FreshRequests(speaks') = FreshRequests(speaks) + 1]_vars

\* nothing is loading, listening or speaking
Idle == ~isLoading /\ ~isListening /\ ~Speaking

\* no asynchronous operation is outstanding
AllSettled == requests = {} /\ recState = "idle" /\ speaks = EmptyBag

\* C18: the step in which a reply request settles leaves loading false;
\* the step in which capture ends or errors leaves listening false; a
\* speak call whose playback completes or whose synthesis fails is no
\* longer under way; with nothing outstanding the session is idle; and
\* once the user takes no more steps the session becomes idle and stays
\* idle.
C18_ActivitiesEnd ==
    /\ [](AllSettled => Idle)
    /\ [][/\ (requests' # requests /\ requests' \subseteq requests) => ~isLoading'
          /\ (RecognitionEnd \/ RecognitionError) => ~isListening'
          /\ (\E c \in Calls : AudioEnded(c) \/ FetchFail(c) \/ PlayRejected(c))
                => BagCardinality(speaks') < BagCardinality(speaks)]_vars
    /\ (<>[][~UserStep]_vars => <>[](Idle /\ AllSettled))

\* with a credential set, two submissions were answered and every request,
\* recognition session and speak call has ended
C18_Witness ==
    /\ AllSettled /\ Idle
    /\ Len(messages) = 5
    /\ apiKey # NoKey
    /\ audioRef = NoAudio

\* C19: isLoading is true exactly when at least one reply request started
\* by sendMessage has not settled yet.
C19_LoadingAccurate == isLoading <=> requests # {}

\* C20: every audio that is playing is the one audioRef refers to, so that
\* stopSpeaking pauses every audio that plays.
C20_HandleAccurate ==
    \A c \in Playing : c.held /\ speaks[c] = 1 /\ audioRef = LiveAudio
====
